---- MODULE Spec2Model ----
(***************************************************************************)
(* A model of genie_flow_invoker: the invoker factory and its registry     *)
(* (factory.py), the pool of invokers the factory builds, and the Neo4j    *)
(* invoker with its process-wide driver (invoker/neo4j.py).                *)
(*                                                                         *)
(* Python dicts are functions with a finite domain of strings; a raised    *)
(* exception is the `outcome` of the call that raised it.                  *)
(***************************************************************************)
EXTENDS Integers, Sequences, FiniteSets, TLC

VARIABLES
    \* ---- InvokerFactory (factory.py) ----
    _registry,      \* InvokerFactory._registry: name -> invoker class
    config,         \* InvokerFactory.config: type name -> dict of defaults
    call,           \* the last call made on the factory, with its arguments
    outcome,        \* how that call ended: "ok" or the exception raised
    lookups,        \* the registry lookups that call made, in order
    constructed,    \* the cls.from_config(config) calls it made, in order
    returned,       \* the value it returned
    nCalls,         \* number of calls made so far
    \* ---- InvokersPool: the pool create_invoker_pool returns ----
    capacity,       \* the pool_size the pool was created with (0: no pool)
    queue,          \* the pool's Queue: instances waiting to be acquired, front first
    callerPc,       \* per caller: "idle", "acquiring" (inside acquire()) or "holding"
    held,           \* per caller: the instance acquire() returned to it (0: none)
    fresh,          \* no release() has been called on the pool yet
    misuses,        \* release() calls that returned an instance the caller did not hold
    \* ---- invoker/neo4j.py ----
    _DRIVER,        \* the module's global: 0 for None, else an index into drivers
    drivers,        \* every driver _create_driver has made in this process, in order
    thrPc,          \* per thread: where it is in Neo4jClientFactory.__init__
    thrConfig,      \* per thread: the config its Neo4jInvoker is being built from
    thrInvoker,     \* per thread: the client factory's fields once built
    thrTarget,      \* per thread: the driver its verify_connectivity() call was made on (0: no call yet)
    thrCall,        \* per thread: its invoke() waiting inside driver.execute_query, or NoValue
    invokedBy,      \* the thread whose invoker ran the last invoke() (0: none yet)
    invokedWith,    \* the content that invoke() was given
    request,        \* what its execute() passed to driver.execute_query (NoValue: the driver was not called)
    response,       \* what the backing store answered to it
    result,         \* the text the last invoke() returned
    raised,         \* the exception the last invoke() let through to its caller
    failedBefore,   \* an invoke() before the last one returned an error result
    reference       \* history: the first invoke() of the reference thread's instance, with its outcome

factoryVars == <<_registry, config, call, outcome, lookups, constructed, returned, nCalls>>
poolVars == <<capacity, queue, callerPc, held, fresh, misuses>>

neoVars == <<_DRIVER, drivers, thrPc, thrConfig, thrInvoker, thrTarget, thrCall>>
queryVars == <<invokedBy, invokedWith, request, response, result, raised, failedBefore, reference>>

vars == <<factoryVars, poolVars, neoVars, queryVars>>

-----------------------------------------------------------------------------
(* Bounds of the model.                                                    *)

MaxCalls == 2       \* calls made on one factory
MaxPoolSize == 2    \* largest pool_size passed to create_invoker_pool
NumCallers == 3     \* concurrent callers of one pool
MaxMisuse == 1      \* release() calls of an instance the caller does not hold
NumThreads == 2     \* threads constructing Neo4j invokers
MaxRows == 3        \* rows a query's cursor can deliver
MaxLimit == 2       \* largest limit a step configures
MaxTextLen == 2     \* longest text given to VerbatimInvoker.invoke

-----------------------------------------------------------------------------
(* Dicts.                                                                  *)

EmptyDict == <<>>

\* dict.update(other): every key of `other` is set, the rest is kept.
DictUpdate(d, other) ==
    [k \in (DOMAIN d) \cup (DOMAIN other) |->
        IF k \in DOMAIN other THEN other[k] ELSE d[k]]

\* The values of the model's inputs.
TypeNames == {"verbatim", "sql"}
Classes == {"VerbatimInvoker", "SqlInvoker"}
OptionKeys == {"limit", "database_uri"}
Keys == {"type"} \cup OptionKeys

ValuesOf(k) ==
    CASE k = "type" -> TypeNames
      [] k = "limit" -> {"10", "50"}
      [] k = "database_uri" -> {"bolt://a"}

\* Every invoker_config a step can pass: any subset of the keys, any values.
StepConfigs ==
    UNION { { d \in [ks -> UNION {ValuesOf(k) : k \in ks}] :
                \A k \in ks : d[k] \in ValuesOf(k) } : ks \in SUBSET Keys }

\* The configs pools are asked for: those that name no database_uri.
PoolConfigs == { d \in StepConfigs : "database_uri" \notin DOMAIN d }

\* containers.py wires a Dict of built-in classes; of these the model keeps one.
builtin_registry == ("verbatim" :> "VerbatimInvoker")

\* The application's configuration a factory may be built with.
ProcessConfigs ==
    { EmptyDict,
      ("sql" :> ("limit" :> "50")),
      ("sql" :> ("limit" :> "50" @@ "database_uri" :> "bolt://a")),
      ("verbatim" :> ("limit" :> "10")) }

NoValue == [kind |-> "none"]

-----------------------------------------------------------------------------
(* InvokerFactory.create_invoker as a function of the factory's state and  *)
(* of its argument. `fails` says whether cls.from_config raises.  The      *)
(* result names the outcome, the factory's config afterwards, the lookups  *)
(* and constructor calls made, and the value returned.                     *)

\* factory.py line 49: the dict the constructor is going to receive, before
\* the step's keys are written into it.
BaseConfig(cfg, invoker_type) ==
    IF invoker_type \in DOMAIN cfg THEN cfg[invoker_type] ELSE EmptyDict

\* A merge in which the defaults win over the step's keys.
MergedConfig_defaults_win(cfg, invoker_config) ==
    DictUpdate(invoker_config, BaseConfig(cfg, invoker_config["type"]))

\* factory.py line 50: config.update(invoker_config).
MergedConfig(cfg, invoker_config) ==
    DictUpdate(BaseConfig(cfg, invoker_config["type"]), invoker_config)

\* factory.py lines 49-50 on self.config: `config` IS the dict stored under
\* self.config[invoker_type] when there is one, and update() writes into it.
ConfigAfterMerge(cfg, invoker_config) ==
    LET t == invoker_config["type"] IN
    IF t \in DOMAIN cfg
        THEN [cfg EXCEPT ![t] = MergedConfig(cfg, invoker_config)]
        ELSE cfg

\* A create_invoker that merges the step's keys into the defaults before it
\* has resolved the class.
create_invoker_merge_first(reg, cfg, invoker_config, fails) ==
    IF "type" \notin DOMAIN invoker_config
    THEN [outcome |-> "ValueError: Invalid invoker config", config |-> cfg,
          lookups |-> <<>>, constructed |-> <<>>, returned |-> NoValue]
    ELSE LET invoker_type == invoker_config["type"]
             merged == MergedConfig(cfg, invoker_config)
             after == ConfigAfterMerge(cfg, invoker_config)
         IN
    IF invoker_type \notin DOMAIN reg
    THEN [outcome |-> "ValueError: Unknown invoker type", config |-> after,
          lookups |-> <<invoker_type>>, constructed |-> <<>>, returned |-> NoValue]
    ELSE [outcome |-> IF fails THEN "ConstructorError" ELSE "ok",
          config |-> after,
          lookups |-> <<invoker_type>>,
          constructed |-> <<[cls |-> reg[invoker_type], config |-> merged]>>,
          returned |-> IF fails THEN NoValue
                       ELSE [kind |-> "invoker", cls |-> reg[invoker_type],
                             config |-> merged]]

\* A create_invoker that takes the class of another registered name when
\* there is one.
create_invoker_other_class(reg, cfg, invoker_config, fails) ==
    IF "type" \notin DOMAIN invoker_config
    THEN [outcome |-> "ValueError: Invalid invoker config", config |-> cfg,
          lookups |-> <<>>, constructed |-> <<>>, returned |-> NoValue]
    ELSE LET invoker_type == invoker_config["type"] IN
    IF invoker_type \notin DOMAIN reg
    THEN [outcome |-> "ValueError: Unknown invoker type", config |-> cfg,
          lookups |-> <<invoker_type>>, constructed |-> <<>>, returned |-> NoValue]
    ELSE LET others == DOMAIN reg \ {invoker_type}
             cls == IF others = {} THEN reg[invoker_type]
                    ELSE reg[CHOOSE o \in others : TRUE]
             merged == MergedConfig(cfg, invoker_config)
             handed == [cls |-> cls, config |-> merged]
         IN  [outcome |-> IF fails THEN "ConstructorError" ELSE "ok",
              config |-> ConfigAfterMerge(cfg, invoker_config),
              lookups |-> <<invoker_type>>,
              constructed |-> <<handed>>,
              returned |-> IF fails THEN NoValue
                           ELSE [kind |-> "invoker", cls |-> cls, config |-> merged]]

create_invoker(reg, cfg, invoker_config, fails) ==
    IF "type" \notin DOMAIN invoker_config
    THEN [outcome |-> "ValueError: Invalid invoker config", config |-> cfg,
          lookups |-> <<>>, constructed |-> <<>>, returned |-> NoValue]
    ELSE LET invoker_type == invoker_config["type"] IN
    IF invoker_type \notin DOMAIN reg
    THEN [outcome |-> "ValueError: Unknown invoker type", config |-> cfg,
          lookups |-> <<invoker_type>>, constructed |-> <<>>, returned |-> NoValue]
    ELSE LET cls == reg[invoker_type]
             merged == MergedConfig(cfg, invoker_config)
             handed == [cls |-> cls, config |-> merged]
         IN  [outcome |-> IF fails THEN "ConstructorError" ELSE "ok",
              config |-> ConfigAfterMerge(cfg, invoker_config),
              lookups |-> <<invoker_type>>,
              constructed |-> <<handed>>,
              returned |-> IF fails THEN NoValue
                           ELSE [kind |-> "invoker", cls |-> cls, config |-> merged]]

-----------------------------------------------------------------------------
(* InvokerFactory.create_invoker_pool: the loop of lines 57-58, one        *)
(* create_invoker call per instance; failAt is the index of the            *)
(* construction that raises (0: none does).                                *)

\* One instance, constructed once (failAt plays no part), put pool_size times.
FillQueue_shared_instance(reg, cfg, invoker_config, pool_size, failAt, acc) ==
    LET r == create_invoker(reg, acc.config, invoker_config, FALSE) IN
    IF r.outcome # "ok"
    THEN [outcome |-> r.outcome, config |-> r.config, lookups |-> r.lookups,
          constructed |-> r.constructed, queue |-> <<>>]
    ELSE [outcome |-> "ok", config |-> r.config, lookups |-> r.lookups,
          constructed |-> r.constructed,
          queue |-> [i \in 1 .. pool_size |->
                        [id |-> 1, cls |-> r.returned.cls, config |-> r.returned.config]]]

\* A loop that runs once too often.
RECURSIVE FillQueue_one_more(_, _, _, _, _, _)
FillQueue_one_more(reg, cfg, invoker_config, pool_size, failAt, acc) ==
    IF Len(acc.queue) > pool_size
    THEN acc
    ELSE LET i == Len(acc.queue) + 1
             r == create_invoker(reg, acc.config, invoker_config, i = failAt)
             next == [outcome |-> r.outcome, config |-> r.config,
                      lookups |-> acc.lookups \o r.lookups,
                      constructed |-> acc.constructed \o r.constructed,
                      queue |-> IF r.outcome = "ok"
                                THEN Append(acc.queue, [id |-> i, cls |-> r.returned.cls,
                                                        config |-> r.returned.config])
                                ELSE acc.queue]
         IN  IF r.outcome = "ok"
             THEN FillQueue_one_more(reg, cfg, invoker_config, pool_size, failAt, next)
             ELSE next

\* A loop that goes on after a construction has failed and queues the
\* instances that could be built.
RECURSIVE FillQueue_skips_failures(_, _, _, _, _, _)
FillQueue_skips_failures(reg, cfg, invoker_config, pool_size, failAt, acc) ==
    IF Len(acc.constructed) >= pool_size
    THEN acc
    ELSE LET i == Len(acc.constructed) + 1
             r == create_invoker(reg, acc.config, invoker_config, i = failAt)
             built == r.outcome = "ok"
             next == [outcome |-> IF built \/ r.outcome = "ConstructorError"
                                  THEN "ok" ELSE r.outcome,
                      config |-> r.config,
                      lookups |-> acc.lookups \o r.lookups,
                      constructed |-> acc.constructed \o r.constructed,
                      queue |-> IF built
                                THEN Append(acc.queue, [id |-> i, cls |-> r.returned.cls,
                                                        config |-> r.returned.config])
                                ELSE acc.queue]
         IN  IF next.outcome = "ok"
             THEN FillQueue_skips_failures(reg, cfg, invoker_config, pool_size, failAt, next)
             ELSE next

\* A loop that constructs the instances and puts none of them in the queue.
RECURSIVE FillQueue_puts_nothing(_, _, _, _, _, _)
FillQueue_puts_nothing(reg, cfg, invoker_config, pool_size, failAt, acc) ==
    IF Len(acc.constructed) >= pool_size
    THEN acc
    ELSE LET i == Len(acc.constructed) + 1
             r == create_invoker(reg, acc.config, invoker_config, i = failAt)
             next == [outcome |-> r.outcome, config |-> r.config,
                      lookups |-> acc.lookups \o r.lookups,
                      constructed |-> acc.constructed \o r.constructed,
                      queue |-> <<>>]
         IN  IF r.outcome = "ok"
             THEN FillQueue_puts_nothing(reg, cfg, invoker_config, pool_size, failAt, next)
             ELSE next

\* A loop that puts each new instance in front of the earlier ones.
RECURSIVE FillQueue_puts_in_front(_, _, _, _, _, _)
FillQueue_puts_in_front(reg, cfg, invoker_config, pool_size, failAt, acc) ==
    IF Len(acc.queue) >= pool_size
    THEN acc
    ELSE LET i == Len(acc.queue) + 1
             r == create_invoker(reg, acc.config, invoker_config, i = failAt)
             next == [outcome |-> r.outcome, config |-> r.config,
                      lookups |-> acc.lookups \o r.lookups,
                      constructed |-> acc.constructed \o r.constructed,
                      queue |-> IF r.outcome = "ok"
                                THEN <<[id |-> i, cls |-> r.returned.cls,
                                        config |-> r.returned.config]>> \o acc.queue
                                ELSE acc.queue]
         IN  IF r.outcome = "ok"
             THEN FillQueue_puts_in_front(reg, cfg, invoker_config, pool_size, failAt, next)
             ELSE next

RECURSIVE FillQueue(_, _, _, _, _, _)
FillQueue(reg, cfg, invoker_config, pool_size, failAt, acc) ==
    IF Len(acc.queue) >= pool_size
    THEN acc
    ELSE LET i == Len(acc.queue) + 1
             r == create_invoker(reg, acc.config, invoker_config, i = failAt)
             next == [outcome |-> r.outcome, config |-> r.config,
                      lookups |-> acc.lookups \o r.lookups,
                      constructed |-> acc.constructed \o r.constructed,
                      queue |-> IF r.outcome = "ok"
                                THEN Append(acc.queue, [id |-> i, cls |-> r.returned.cls,
                                                        config |-> r.returned.config])
                                ELSE acc.queue]
         IN  IF r.outcome = "ok"
             THEN FillQueue(reg, cfg, invoker_config, pool_size, failAt, next)
             ELSE next

\* A create_invoker_pool without the check of pool_size.
create_invoker_pool_unchecked(reg, cfg, pool_size, invoker_config, failAt) ==
    LET r == FillQueue(reg, cfg, invoker_config, pool_size, failAt,
                       [outcome |-> "ok", config |-> cfg, lookups |-> <<>>,
                        constructed |-> <<>>, queue |-> <<>>])
    IN  [outcome |-> r.outcome, config |-> r.config, lookups |-> r.lookups,
         constructed |-> r.constructed,
         returned |-> IF r.outcome = "ok"
                      THEN [kind |-> "pool", queue |-> r.queue]
                      ELSE NoValue]

create_invoker_pool(reg, cfg, pool_size, invoker_config, failAt) ==
    IF ~(pool_size > 0)
    THEN [outcome |-> "AssertionError", config |-> cfg, lookups |-> <<>>,
          constructed |-> <<>>, returned |-> NoValue]
    ELSE LET r == FillQueue(reg, cfg, invoker_config, pool_size, failAt,
                            [outcome |-> "ok", config |-> cfg, lookups |-> <<>>,
                             constructed |-> <<>>, queue |-> <<>>])
         IN  [outcome |-> r.outcome, config |-> r.config, lookups |-> r.lookups,
              constructed |-> r.constructed,
              returned |-> IF r.outcome = "ok"
                           THEN [kind |-> "pool", queue |-> r.queue]
                           ELSE NoValue]

-----------------------------------------------------------------------------
(* The factory's operations as actions.                                    *)

\* InvokerFactory.__init__: config or dict(), builtin_registry or dict().
InitFactory ==
    /\ _registry \in {EmptyDict, builtin_registry}
    /\ config \in ProcessConfigs
    /\ call = [op |-> "none"]
    /\ outcome = "none"
    /\ lookups = <<>>
    /\ constructed = <<>>
    /\ returned = NoValue
    /\ nCalls = 0

\* A register_invoker that overwrites an existing entry.
RegisterInvoker_overwrite(invoker_name, invoker_class) ==
    /\ nCalls < MaxCalls
    /\ nCalls' = nCalls + 1
    /\ call' = [op |-> "register_invoker", name |-> invoker_name, cls |-> invoker_class]
    /\ outcome' = "ok"
    /\ _registry' = DictUpdate(_registry, invoker_name :> invoker_class)
    /\ lookups' = <<>>
    /\ constructed' = <<>>
    /\ returned' = NoValue
    /\ UNCHANGED <<config, poolVars, neoVars, queryVars>>

RegisterInvoker(invoker_name, invoker_class) ==
    /\ nCalls < MaxCalls
    /\ nCalls' = nCalls + 1
    /\ call' = [op |-> "register_invoker", name |-> invoker_name, cls |-> invoker_class]
    /\ IF invoker_name \in DOMAIN _registry
       THEN /\ outcome' = "ValueError: already registered"
            /\ _registry' = _registry
       ELSE /\ outcome' = "ok"
            /\ _registry' = DictUpdate(_registry, invoker_name :> invoker_class)
    /\ lookups' = <<>>
    /\ constructed' = <<>>
    /\ returned' = NoValue
    /\ UNCHANGED <<config, poolVars, neoVars, queryVars>>

CreateInvoker(invoker_config, fails) ==
    /\ nCalls < MaxCalls
    /\ nCalls' = nCalls + 1
    /\ call' = [op |-> "create_invoker", config |-> invoker_config]
    /\ LET r == create_invoker(_registry, config, invoker_config, fails) IN
        /\ outcome' = r.outcome
        /\ config' = r.config
        /\ lookups' = r.lookups
        /\ constructed' = r.constructed
        /\ returned' = r.returned
    /\ UNCHANGED <<_registry, poolVars, neoVars, queryVars>>

CreateInvokerPool(pool_size, invoker_config, failAt) ==
    /\ nCalls < MaxCalls
    /\ nCalls' = nCalls + 1
    /\ call' = [op |-> "create_invoker_pool", pool_size |-> pool_size,
                config |-> invoker_config, failAt |-> failAt]
    /\ LET r == create_invoker_pool(_registry, config, pool_size, invoker_config, failAt) IN
        /\ outcome' = r.outcome
        /\ config' = r.config
        /\ lookups' = r.lookups
        /\ constructed' = r.constructed
        /\ returned' = r.returned
    /\ UNCHANGED <<_registry, poolVars, neoVars, queryVars>>

Callers == 1 .. NumCallers
Threads == 1 .. NumThreads

\* No pool is in use while the factory's own operations are studied.
NoPool ==
    /\ capacity = 0
    /\ queue = <<>>
    /\ callerPc = [c \in Callers |-> "idle"]
    /\ held = [c \in Callers |-> 0]
    /\ fresh = TRUE
    /\ misuses = 0

\* neo4j.py as imported: _DRIVER is None (line 13) and no invoker exists.
NoDriver ==
    /\ _DRIVER = 0
    /\ drivers = <<>>
    /\ thrPc = [t \in Threads |-> "idle"]
    /\ thrConfig = [t \in Threads |-> EmptyDict]
    /\ thrInvoker = [t \in Threads |-> NoValue]
    /\ thrTarget = [t \in Threads |-> 0]
    /\ thrCall = [t \in Threads |-> NoValue]

NoQuery ==
    /\ invokedBy = 0
    /\ invokedWith = NoValue
    /\ request = NoValue
    /\ response = NoValue
    /\ result = NoValue
    /\ raised = <<>>
    /\ failedBefore = FALSE
    /\ reference = NoValue

\* A factory on which nothing has been called, holding the built-in registry.
FactoryAtRest ==
    /\ _registry = builtin_registry
    /\ config = EmptyDict
    /\ call = [op |-> "none"]
    /\ outcome = "none"
    /\ lookups = <<>>
    /\ constructed = <<>>
    /\ returned = NoValue
    /\ nCalls = 0

Init == InitFactory /\ NoPool /\ NoDriver /\ NoQuery

Next ==
    \/ \E n \in TypeNames, c \in Classes : RegisterInvoker(n, c)
    \/ \E ic \in StepConfigs, f \in BOOLEAN : CreateInvoker(ic, f)
    \/ \E s \in -1 .. MaxPoolSize, ic \in PoolConfigs :
          \E k \in 0 .. (IF s > 0 THEN s ELSE 0) : CreateInvokerPool(s, ic, k)

Spec == Init /\ [][Next]_vars

-----------------------------------------------------------------------------
(* The pool.  create_invoker_pool fills a Queue() (factory.py line 56: no   *)
(* maxsize, so put() never blocks) and wraps it in an InvokersPool.        *)
(* acquire() is Queue.get(): it waits while the queue is empty and then    *)
(* takes the front; release(invoker) is Queue.put(invoker): it appends at  *)
(* the back and checks nothing about the instance it is given.             *)

\* The configuration the pool's instances are created from.
PoolStepConfig == "type" :> "verbatim"

\* The identities of the instances in the Queue of a pool the factory returned.
PooledInstances(pool) ==
    [i \in 1 .. Len(pool.queue) |-> pool.queue[i].id]

\* The state right after create_invoker_pool(size, {"type": "verbatim"}) has
\* returned a pool, on a factory holding the built-in registry.
InitPool ==
    /\ \E size \in 1 .. MaxPoolSize :
        LET r == create_invoker_pool(builtin_registry, EmptyDict, size,
                                     PoolStepConfig, 0)
        IN  /\ _registry = builtin_registry
            /\ config = r.config
            /\ call = [op |-> "create_invoker_pool", pool_size |-> size,
                       config |-> PoolStepConfig, failAt |-> 0]
            /\ outcome = r.outcome
            /\ lookups = r.lookups
            /\ constructed = r.constructed
            /\ returned = r.returned
            /\ nCalls = 1
            /\ capacity = size
            /\ queue = PooledInstances(r.returned)
    /\ callerPc = [c \in Callers |-> "idle"]
    /\ held = [c \in Callers |-> 0]
    /\ fresh = TRUE
    /\ misuses = 0
    /\ NoDriver
    /\ NoQuery

\* A caller enters acquire().
AcquireCall(c) ==
    /\ callerPc[c] = "idle"
    /\ callerPc' = [callerPc EXCEPT ![c] = "acquiring"]
    /\ UNCHANGED <<capacity, queue, held, fresh, misuses>>
    /\ UNCHANGED <<factoryVars, neoVars, queryVars>>

\* acquire() returns: Queue.get() hands out the front of the queue; it cannot
\* return while the queue is empty.
AcquireReturn(c) ==
    /\ callerPc[c] = "acquiring"
    /\ queue # <<>>
    /\ held' = [held EXCEPT ![c] = Head(queue)]
    /\ queue' = Tail(queue)
    /\ callerPc' = [callerPc EXCEPT ![c] = "holding"]
    /\ UNCHANGED <<capacity, fresh, misuses>>
    /\ UNCHANGED <<factoryVars, neoVars, queryVars>>

\* release(invoker) of the instance the caller holds.
Release(c) ==
    /\ callerPc[c] = "holding"
    /\ queue' = Append(queue, held[c])
    /\ held' = [held EXCEPT ![c] = 0]
    /\ callerPc' = [callerPc EXCEPT ![c] = "idle"]
    /\ fresh' = FALSE
    /\ UNCHANGED <<capacity, misuses>>
    /\ UNCHANGED <<factoryVars, neoVars, queryVars>>

\* release(invoker) of an instance the caller does not hold: one it released
\* before, one another caller holds, or one that never belonged to the pool
\* (capacity + 1).  Nothing validates the argument.
ReleaseUnheld(c, i) ==
    /\ misuses < MaxMisuse
    /\ callerPc[c] # "acquiring"
    /\ i # held[c]
    /\ queue' = Append(queue, i)
    /\ fresh' = FALSE
    /\ misuses' = misuses + 1
    /\ UNCHANGED <<capacity, callerPc, held>>
    /\ UNCHANGED <<factoryVars, neoVars, queryVars>>

NextPool ==
    \/ \E c \in Callers : AcquireCall(c)
    \/ \E c \in Callers : AcquireReturn(c)
    \/ \E c \in Callers : Release(c)

\* Callers that release what they acquired, once.
SpecPool == InitPool /\ [][NextPool]_vars

NextPoolAnyRelease ==
    \/ NextPool
    \/ \E c \in Callers, i \in 1 .. capacity + 1 : ReleaseUnheld(c, i)

\* Callers that may also call release() with an instance they do not hold.
SpecPoolAnyRelease == InitPool /\ [][NextPoolAnyRelease]_vars

\* The scheduling the blocking discipline is stated for: a caller that holds
\* an instance eventually releases it (put() never waits: the Queue has no
\* maxsize), and a caller waiting in get() is not passed over for ever when
\* the queue is non-empty again and again.
FairPool ==
    \A c \in Callers : WF_vars(Release(c)) /\ SF_vars(AcquireReturn(c))

SpecPoolFair == InitPool /\ [][NextPool]_vars /\ FairPool

-----------------------------------------------------------------------------
(* invoker/neo4j.py: the construction of a Neo4jInvoker.                   *)
(* Neo4jInvoker.__init__ runs Neo4jClientFactory.__init__ (lines 116-132), *)
(* which several threads may run at once; a thread may be preempted        *)
(* between the test of _DRIVER (line 120), the assignment (line 126), the  *)
(* load of _DRIVER for the verification (line 127), the return of that     *)
(* call and the reading of the fields (lines 129-132).                     *)

DefaultLimit == 1000

URIs == {"bolt://a", "bolt://b"}

\* The configs a Neo4j invoker is built from: a database_uri (username and
\* password go with it), optionally a limit, optionally write_queries.
NeoConfigs ==
    { ("database_uri" :> u) @@ l @@ w :
        u \in URIs,
        l \in {EmptyDict} \cup {("limit" :> n) : n \in 1 .. MaxLimit},
        w \in {EmptyDict, ("write_queries" :> TRUE)} }

\* The configs the concurrent constructions are run with: those that leave
\* write_queries at its default.
ConstructionConfigs == { c \in NeoConfigs : "write_queries" \notin DOMAIN c }

\* ConfigReader.get_config_value(key, default), with no environment variable
\* set for the key.
get_config_value(cfg, key, default) ==
    IF key \in DOMAIN cfg THEN cfg[key] ELSE default

\* _create_driver (lines 16-20): a new driver for the config's database_uri.
_create_driver(cfg) == [uri |-> cfg["database_uri"], verified |-> FALSE]

\* Lines 129-132: the fields of the client factory.
ClientFactoryFields(cfg) ==
    [kind |-> "invoker",
     database_name |-> get_config_value(cfg, "database_name", "None"),
     limit |-> get_config_value(cfg, "limit", DefaultLimit),
     query_timeout |-> get_config_value(cfg, "query_timeout", "None"),
     execute_write_queries |-> get_config_value(cfg, "write_queries", FALSE)]

\* Line 120: a thread starts constructing an invoker and tests _DRIVER.
TestDriver(t, cfg) ==
    /\ thrPc[t] = "idle"
    /\ thrConfig' = [thrConfig EXCEPT ![t] = cfg]
    /\ thrPc' = [thrPc EXCEPT ![t] = IF _DRIVER = 0 THEN "create" ELSE "fields"]
    /\ UNCHANGED <<_DRIVER, drivers, thrInvoker, thrTarget, thrCall>>
    /\ UNCHANGED <<factoryVars, poolVars, queryVars>>

\* Lines 121-126: _DRIVER = _create_driver(config_to_use).
CreateDriver(t) ==
    /\ thrPc[t] = "create"
    /\ drivers' = Append(drivers, _create_driver(thrConfig[t]))
    /\ _DRIVER' = Len(drivers) + 1
    /\ thrPc' = [thrPc EXCEPT ![t] = "verify"]
    /\ UNCHANGED <<thrConfig, thrInvoker, thrTarget, thrCall>>
    /\ UNCHANGED <<factoryVars, poolVars, queryVars>>

\* Line 127, the call: the global _DRIVER is loaded, whatever it is by now,
\* and verify_connectivity() is entered on that driver; the thread then
\* waits for the server.
VerifyConnectivityCall(t) ==
    /\ thrPc[t] = "verify"
    /\ thrTarget[t] = 0
    /\ thrTarget' = [thrTarget EXCEPT ![t] = _DRIVER]
    /\ UNCHANGED <<_DRIVER, drivers, thrPc, thrConfig, thrInvoker, thrCall>>
    /\ UNCHANGED <<factoryVars, poolVars, queryVars>>

\* Line 127, the return: the call ends for the driver it was entered on;
\* when it raises, the exception leaves the constructor and no invoker is
\* built.
VerifyConnectivity(t, reachable) ==
    /\ thrPc[t] = "verify"
    /\ thrTarget[t] # 0
    /\ IF reachable
       THEN /\ drivers' = [drivers EXCEPT ![thrTarget[t]].verified = TRUE]
            /\ thrPc' = [thrPc EXCEPT ![t] = "fields"]
       ELSE /\ drivers' = drivers
            /\ thrPc' = [thrPc EXCEPT ![t] = "raised"]
    /\ UNCHANGED <<_DRIVER, thrConfig, thrInvoker, thrTarget, thrCall>>
    /\ UNCHANGED <<factoryVars, poolVars, queryVars>>

\* Lines 129-132: the fields are read and the invoker is complete.
ReadFields(t) ==
    /\ thrPc[t] = "fields"
    /\ thrInvoker' = [thrInvoker EXCEPT ![t] = ClientFactoryFields(thrConfig[t])]
    /\ thrPc' = [thrPc EXCEPT ![t] = "done"]
    /\ UNCHANGED <<_DRIVER, drivers, thrConfig, thrTarget, thrCall>>
    /\ UNCHANGED <<factoryVars, poolVars, queryVars>>

InitNeo4j == FactoryAtRest /\ NoPool /\ NoDriver /\ NoQuery

NextNeo4j ==
    \/ \E t \in Threads, cfg \in ConstructionConfigs : TestDriver(t, cfg)
    \/ \E t \in Threads : CreateDriver(t)
    \/ \E t \in Threads : VerifyConnectivityCall(t)
    \/ \E t \in Threads, reachable \in BOOLEAN : VerifyConnectivity(t, reachable)
    \/ \E t \in Threads : ReadFields(t)

SpecNeo4j == InitNeo4j /\ [][NextNeo4j]_vars

-----------------------------------------------------------------------------
(* invoker/neo4j.py: the execution of a query.                             *)
(* Neo4jInvoker.invoke (lines 176-199) hashes the content, enters the      *)
(* client factory, which builds a Neo4jClient on the current _DRIVER       *)
(* (lines 134-141), and calls Neo4jClient.execute (lines 92-112).  The     *)
(* thread waits inside driver.execute_query, so other threads may run      *)
(* between the call and its return.  The backing store's answer is an      *)
(* input: the driver call raises, or it hands a cursor to the transformer. *)

\* Texts that hold a lone surrogate code point, as the python string
\* "\ud800" does: a str may hold one, UTF-8 has no encoding for it.
LoneSurrogateQuery == "RETURN '<U+D800>'"
LoneSurrogateMessage == "<U+D800> is not a label"
LoneSurrogateTexts == {LoneSurrogateQuery, LoneSurrogateMessage}

Queries == {"MATCH (n) RETURN n", "CREATE (n)", LoneSurrogateQuery}

\* What the driver call can raise, with the text str(e) gives; an exception
\* constructed without a message has the empty text, the message of an
\* exception may hold any code point, and brokenStr marks an exception whose
\* __str__ raises.  KeyboardInterrupt reaches the call when the process is
\* interrupted while it waits.
DriverExceptions ==
    { [cls |-> "ServiceUnavailable", text |-> "Unable to retrieve routing information",
       brokenStr |-> FALSE],
      [cls |-> "CypherSyntaxError", text |-> "Invalid input", brokenStr |-> FALSE],
      [cls |-> "TimeoutError", text |-> "", brokenStr |-> FALSE],
      [cls |-> "KeyboardInterrupt", text |-> "", brokenStr |-> FALSE],
      [cls |-> "ClientError", text |-> LoneSurrogateMessage, brokenStr |-> FALSE],
      [cls |-> "DriverError", text |-> "", brokenStr |-> TRUE] }

\* pydantic's error when a record holds a value the model's field types refuse.
ValidationError ==
    [cls |-> "ValidationError", text |-> "validation error for Neo4jQueryResult",
     brokenStr |-> FALSE]

\* What str.encode("utf-8") raises on a lone surrogate.
UnicodeEncodeError ==
    [cls |-> "UnicodeEncodeError",
     text |-> "'utf-8' codec can't encode character: surrogates not allowed",
     brokenStr |-> FALSE]

\* What pydantic raises when a string of the model has no UTF-8 encoding.
PydanticSerializationError ==
    [cls |-> "PydanticSerializationError",
     text |-> "Error serializing to JSON: UnicodeEncodeError",
     brokenStr |-> FALSE]

\* What str(e) raises when e.__str__ does not give a string.
TypeError ==
    [cls |-> "TypeError", text |-> "__str__ returned non-string", brokenStr |-> FALSE]

\* What the backing store can answer: an exception out of execute_query, or a
\* cursor over n rows.  closesWhenDrained: the cursor is consumed as soon as
\* its last row has been fetched, so a later peek() raises
\* ResultConsumedError.  badRow: the row (0: none) holding a value that is no
\* str, int, float, list or dict.
Responses ==
    { [kind |-> "raises", exc |-> e] : e \in DriverExceptions } \cup
    { [kind |-> "cursor", n |-> n, closesWhenDrained |-> c, badRow |-> b] :
        n \in 0 .. MaxRows, c \in BOOLEAN, b \in 0 .. MaxRows }

Min(a, b) == IF a <= b THEN a ELSE b

\* The rows of a cursor, in cursor order; row i is the list [i].
Rows(resp) == [i \in 1 .. resp.n |-> <<i>>]

\* A fetch that takes one row more than asked for.
Fetch_one_more(resp, n) == SubSeq(Rows(resp), 1, Min(n + 1, resp.n))

\* Result.fetch(n): up to n rows from the front of the cursor.
Fetch(resp, n) == SubSeq(Rows(resp), 1, Min(n, resp.n))

\* Result.peek() after that fetch: "consumed" when the cursor has been
\* consumed, else the next row, or "None" when there is none.
Peek(resp, fetched) ==
    IF resp.closesWhenDrained /\ fetched >= resp.n THEN "ResultConsumedError"
    ELSE IF fetched < resp.n THEN "record"
    ELSE "None"

\* Optional[str]: <<>> is None, <<s>> is the string s.
None == <<>>
Some(x) == <<x>>

\* s.encode("utf-8") (lines 96, 107, 182, 198): the exception it raises, or
\* None when the text has an encoding.
encode(s) ==
    IF s \in LoneSurrogateTexts THEN Some(UnicodeEncodeError) ELSE None

\* str(e) (line 111): the text, or the exception e.__str__ ends in.
str(e) ==
    IF e.brokenStr THEN [raised |-> Some(TypeError)]
    ELSE [raised |-> None, value |-> e.text]

\* Neo4jQueryResult (lines 31-48) with its field defaults.
Neo4jQueryResult(headers, records, has_more, error) ==
    [headers |-> headers, records |-> records, has_more |-> has_more, error |-> error]

\* model_dump_json(): the fields in declaration order, null for None; it
\* raises when the error text has no UTF-8 encoding (headers and rows of the
\* model are encodable).
model_dump_json(r) ==
    IF r.error # None /\ encode(r.error[1]) # None
    THEN [raised |-> Some(PydanticSerializationError)]
    ELSE [raised |-> None,
          value |-> << <<"headers", r.headers>>, <<"records", r.records>>,
                       <<"has_more", r.has_more>>, <<"error", r.error>> >>]

\* The value of a field of such a JSON object.
JsonField(doc, name) ==
    LET i == CHOOSE j \in 1 .. Len(doc) : doc[j][1] = name IN doc[i][2]

\* has_more as lines 83-89 compute it from the peek.
HasMore(peek) ==
    IF peek = "ResultConsumedError" THEN FALSE ELSE peek # "None"

\* Neo4jClient._limiting_transformer (lines 80-90) and from_neo4j_result
\* (lines 50-61): the model object, or the exception raised.
_limiting_transformer(limit, resp) ==
    LET records == Fetch(resp, limit)
        keys == <<"n">>
        has_more == HasMore(Peek(resp, Len(records)))
    IN  IF resp.badRow \in 1 .. Len(records)
        THEN [raised |-> Some(ValidationError)]
        ELSE [raised |-> None,
              value |-> Neo4jQueryResult(keys, records, has_more, None)]

\* The direct base classes of the exception classes: python's built-ins
\* that derive from BaseException without deriving from Exception,
\* asyncio's CancelledError, and the classes the driver, pydantic and the
\* interpreter raise with the chain that leads them to Exception.
ExceptionBases ==
    ("BaseException" :> {}) @@
    ("Exception" :> {"BaseException"}) @@
    ("BaseExceptionGroup" :> {"BaseException"}) @@
    ("GeneratorExit" :> {"BaseException"}) @@
    ("KeyboardInterrupt" :> {"BaseException"}) @@
    ("SystemExit" :> {"BaseException"}) @@
    ("CancelledError" :> {"BaseException"}) @@
    ("ExceptionGroup" :> {"BaseExceptionGroup", "Exception"}) @@
    ("MemoryError" :> {"Exception"}) @@
    ("OSError" :> {"Exception"}) @@
    ("TimeoutError" :> {"OSError"}) @@
    ("TypeError" :> {"Exception"}) @@
    ("ValueError" :> {"Exception"}) @@
    ("UnicodeError" :> {"ValueError"}) @@
    ("UnicodeEncodeError" :> {"UnicodeError"}) @@
    ("ValidationError" :> {"ValueError"}) @@
    ("PydanticSerializationError" :> {"ValueError"}) @@
    ("Neo4jError" :> {"Exception"}) @@
    ("ClientError" :> {"Neo4jError"}) @@
    ("CypherSyntaxError" :> {"ClientError"}) @@
    ("DriverError" :> {"Exception"}) @@
    ("ServiceUnavailable" :> {"DriverError"})

\* issubclass(cls, base).
RECURSIVE IsSubclass(_, _)
IsSubclass(cls, base) ==
    \/ cls = base
    \/ \E b \in ExceptionBases[cls] : IsSubclass(b, base)

\* Which exceptions the handler of line 110 catches: `except Exception`,
\* the instances of Exception and of its subclasses.
Caught(exc) == IsSubclass(exc.cls, "Exception")

\* Neo4jClient.execute (lines 92-112): whether the driver was called, and
\* the text returned or the exception let through.
\*   lines 94-97: the hash of the query is logged before the try, so a
\*     query without a UTF-8 encoding raises here and the driver is not
\*     called;
\*   lines 99-109, the try: the driver call with the transformer, then
\*     model_dump_json of its value;
\*   lines 110-112, the handler of an Exception: str(e), the error result
\*     and its model_dump_json, none of them protected, so what they raise
\*     leaves execute.
execute(client, query_string, resp) ==
    IF encode(query_string) # None
    THEN [called |-> FALSE, raised |-> encode(query_string), text |-> NoValue]
    ELSE
    LET transformed == IF resp.kind = "raises"
                       THEN [raised |-> Some(resp.exc)]
                       ELSE _limiting_transformer(client.limit, resp)
        tried == IF transformed.raised # None THEN transformed
                 ELSE model_dump_json(transformed.value)
    IN  IF tried.raised = None
        THEN [called |-> TRUE, raised |-> None, text |-> tried.value]
        ELSE IF ~Caught(tried.raised[1])
        THEN [called |-> TRUE, raised |-> tried.raised, text |-> NoValue]
        ELSE
        LET message == str(tried.raised[1]) IN
        IF message.raised # None
        THEN [called |-> TRUE, raised |-> message.raised, text |-> NoValue]
        ELSE
        LET dumped == model_dump_json(
                          Neo4jQueryResult(<<>>, <<>>, FALSE, Some(message.value)))
        IN  IF dumped.raised # None
            THEN [called |-> TRUE, raised |-> dumped.raised, text |-> NoValue]
            ELSE [called |-> TRUE, raised |-> None, text |-> dumped.value]

\* Lines 98-104: what execute passes to driver.execute_query.
ExecuteQueryArguments(client, query_string) ==
    [driver |-> client.driver,
     query_ |-> [text |-> query_string, timeout |-> client.query_timeout],
     database_ |-> client.database_name]

\* Neo4jClientFactory.__enter__ (lines 134-141).
Neo4jClient(invoker) ==
    [driver |-> _DRIVER,
     database_name |-> invoker.database_name,
     limit |-> invoker.limit,
     query_timeout |-> invoker.query_timeout,
     execute_write_queries |-> invoker.execute_write_queries]

\* The text an invoke() returned is an error result.
IsErrorResult(text) == text # NoValue /\ JsonField(text, "error") # None

\* The thread whose instance is invoked once, as a fresh instance, for the
\* comparison with the instance of thread 1.
ReferenceThread == 2

\* The history variable after an invoke() of thread t has ended: the first
\* invoke() of the reference thread's instance is recorded with its outcome.
Recorded(t, content, resp, text, exc) ==
    IF t = ReferenceThread /\ reference = NoValue
    THEN [kind |-> "outcome", content |-> content, response |-> resp,
          result |-> text, raised |-> exc]
    ELSE reference

\* Neo4jInvoker.invoke(content), the call, by the thread that owns the
\* invoker.  Line 182 hashes content.encode("utf-8") before the client
\* factory is entered: a content without a UTF-8 encoding raises out of
\* invoke here, and neither __enter__ nor the driver is reached.  Otherwise
\* __enter__ (lines 134-141) builds the client on the _DRIVER of this
\* moment, execute (lines 93-104) hands the query to that driver, and the
\* thread waits for the store.
InvokeCall(t, content) ==
    /\ thrPc[t] = "done"
    /\ thrCall[t] = NoValue
    /\ IF encode(content) # None
       THEN /\ thrCall' = thrCall
            /\ invokedBy' = t
            /\ invokedWith' = content
            /\ request' = NoValue
            /\ response' = NoValue
            /\ result' = NoValue
            /\ raised' = encode(content)
            /\ failedBefore' = (failedBefore \/ IsErrorResult(result))
            /\ reference' = Recorded(t, content, NoValue, NoValue, encode(content))
       ELSE /\ thrCall' = [thrCall EXCEPT ![t] =
                         [kind |-> "call", client |-> Neo4jClient(thrInvoker[t]),
                          content |-> content]]
            /\ UNCHANGED queryVars
    /\ UNCHANGED <<_DRIVER, drivers, thrPc, thrConfig, thrInvoker, thrTarget>>
    /\ UNCHANGED <<factoryVars, poolVars>>

\* An invoke() that, once a query has failed, answers every later query with
\* that error.
InvokeReturn_sticky_failure(t, resp) ==
    /\ thrCall[t] # NoValue
    /\ LET client == thrCall[t].client
           content == thrCall[t].content
           r == execute(client, content, resp)
           text == IF IsErrorResult(result) THEN result ELSE r.text
       IN  /\ invokedBy' = t
           /\ invokedWith' = content
           /\ request' = ExecuteQueryArguments(client, content)
           /\ response' = resp
           /\ result' = text
           /\ raised' = r.raised
           /\ reference' = Recorded(t, content, resp, text, r.raised)
    /\ failedBefore' = (failedBefore \/ IsErrorResult(result))
    /\ thrCall' = [thrCall EXCEPT ![t] = NoValue]
    /\ UNCHANGED <<_DRIVER, drivers, thrPc, thrConfig, thrInvoker, thrTarget>>
    /\ UNCHANGED <<factoryVars, poolVars>>

\* Neo4jInvoker.invoke(content), the return: the store answers the call on
\* the client it was made with, and execute (lines 105-112) and invoke
\* (lines 191-199) hand the text back, or the exception execute let through
\* leaves invoke.  The text is a JSON document, so the hash of line 198 is
\* always computed.
InvokeReturn(t, resp) ==
    /\ thrCall[t] # NoValue
    /\ LET client == thrCall[t].client
           content == thrCall[t].content
           r == execute(client, content, resp)
       IN  /\ invokedBy' = t
           /\ invokedWith' = content
           /\ request' = ExecuteQueryArguments(client, content)
           /\ response' = resp
           /\ result' = r.text
           /\ raised' = r.raised
           /\ reference' = Recorded(t, content, resp, r.text, r.raised)
    /\ failedBefore' = (failedBefore \/ IsErrorResult(result))
    /\ thrCall' = [thrCall EXCEPT ![t] = NoValue]
    /\ UNCHANGED <<_DRIVER, drivers, thrPc, thrConfig, thrInvoker, thrTarget>>
    /\ UNCHANGED <<factoryVars, poolVars>>

\* A process in which one thread has built an invoker, from any config, on a
\* driver that passed its verification.
InitQuery ==
    /\ FactoryAtRest /\ NoPool /\ NoQuery
    /\ \E cfg \in NeoConfigs :
        /\ drivers = <<[_create_driver(cfg) EXCEPT !.verified = TRUE]>>
        /\ thrConfig = [t \in Threads |-> IF t = 1 THEN cfg ELSE EmptyDict]
        /\ thrInvoker = [t \in Threads |->
                            IF t = 1 THEN ClientFactoryFields(cfg) ELSE NoValue]
    /\ _DRIVER = 1
    /\ thrPc = [t \in Threads |-> IF t = 1 THEN "done" ELSE "idle"]
    /\ thrTarget = [t \in Threads |-> IF t = 1 THEN 1 ELSE 0]
    /\ thrCall = [t \in Threads |-> NoValue]

NextQuery ==
    \/ \E t \in Threads, content \in Queries : InvokeCall(t, content)
    \/ \E t \in Threads, resp \in Responses : InvokeReturn(t, resp)

SpecQuery == InitQuery /\ [][NextQuery]_vars

\* Two instances built from one config in one process: thread 1 built the
\* first and verified the driver, the reference thread built the second on
\* the driver it found.  The instance of thread 1 is invoked any number of
\* times, the reference instance once.
RepeatConfigs == { c \in ConstructionConfigs : c["database_uri"] = "bolt://a" }

\* The store's answers in that process: every exception, and the cursors
\* with the bad row, if any, in front.
RepeatResponses ==
    { r \in Responses : r.kind = "cursor" => r.badRow \in {0, 1} }

InitRepeat ==
    /\ FactoryAtRest /\ NoPool /\ NoQuery
    /\ \E cfg \in RepeatConfigs :
        /\ drivers = <<[_create_driver(cfg) EXCEPT !.verified = TRUE]>>
        /\ thrConfig = [t \in Threads |->
                            IF t \in {1, ReferenceThread} THEN cfg ELSE EmptyDict]
        /\ thrInvoker = [t \in Threads |->
                            IF t \in {1, ReferenceThread}
                            THEN ClientFactoryFields(cfg) ELSE NoValue]
    /\ _DRIVER = 1
    /\ thrPc = [t \in Threads |-> IF t \in {1, ReferenceThread} THEN "done" ELSE "idle"]
    /\ thrTarget = [t \in Threads |-> IF t = 1 THEN 1 ELSE 0]
    /\ thrCall = [t \in Threads |-> NoValue]

NextRepeat ==
    \/ \E content \in Queries : InvokeCall(1, content)
    \/ \E resp \in RepeatResponses : InvokeReturn(1, resp)
    \/ \E content \in Queries :
          reference = NoValue /\ InvokeCall(ReferenceThread, content)
    \/ \E resp \in RepeatResponses : InvokeReturn(ReferenceThread, resp)

SpecRepeat == InitRepeat /\ [][NextRepeat]_vars

\* Constructions and queries in one process: threads construct invokers as
\* in SpecNeo4j, and every invoker that exists may be invoked.  The store
\* answers each query with a cursor over one row.
OneRowResponses ==
    { r \in Responses :
        r.kind = "cursor" /\ r.n = 1 /\ r.badRow = 0 /\ ~r.closesWhenDrained }

NextNeo4jUse ==
    \/ NextNeo4j
    \/ \E t \in Threads, content \in Queries : InvokeCall(t, content)
    \/ \E t \in Threads, resp \in OneRowResponses : InvokeReturn(t, resp)

SpecNeo4jUse == InitNeo4j /\ [][NextNeo4jUse]_vars

-----------------------------------------------------------------------------
(* invoker/verbatim.py: the echo adapter registered as "verbatim"          *)
(* (containers.py line 15), used through a factory that holds the built-in *)
(* registry and no process-wide defaults.                                  *)

\* The texts given to invoke(): the strings over two characters, as
\* sequences of characters.
Texts == UNION { [1 .. n -> {"a", "b"}] : n \in 0 .. MaxTextLen }

\* VerbatimInvoker.invoke(content): the content, as it came.
VerbatimInvoker_invoke(content) == content

\* invoke(content) on the instance the last create_invoker call returned,
\* when that is an instance of VerbatimInvoker.
VerbatimInvoke(content) ==
    /\ returned # NoValue
    /\ returned.kind = "invoker"
    /\ returned.cls = "VerbatimInvoker"
    /\ request' = [kind |-> "text", content |-> content]
    /\ result' = [kind |-> "text", content |-> VerbatimInvoker_invoke(content)]
    /\ UNCHANGED <<invokedBy, invokedWith, response, raised, failedBefore, reference>>
    /\ UNCHANGED <<factoryVars, poolVars, neoVars>>

InitVerbatim == FactoryAtRest /\ NoPool /\ NoDriver /\ NoQuery

NextVerbatim ==
    \/ \E n \in TypeNames, c \in Classes : RegisterInvoker(n, c)
    \/ \E ic \in StepConfigs, f \in BOOLEAN : CreateInvoker(ic, f)
    \/ \E content \in Texts : VerbatimInvoke(content)

SpecVerbatim == InitVerbatim /\ [][NextVerbatim]_vars

-----------------------------------------------------------------------------
(* Properties of the factory (checked under Spec).                         *)

\* The defaults the factory holds for a type.
DefaultsHeld(cfg, t) == IF t \in DOMAIN cfg THEN cfg[t] ELSE EmptyDict

\* C1: whenever create_invoker reaches the constructor, the configuration it
\* hands over is, key by key, the defaults the factory held for the type when
\* the call was made, overlaid with the keys of the step's configuration: a
\* key of the step carries the step's value, a key only in the defaults
\* carries the default, and there is no other key.
C1_EffectiveConfigIsOverlay ==
    [][ (call'.op = "create_invoker" /\ constructed' # <<>>) =>
            LET step == call'.config
                defaults == DefaultsHeld(config, step["type"])
                handed == constructed'[1].config
            IN  /\ DOMAIN handed = (DOMAIN defaults) \cup (DOMAIN step)
                /\ \A k \in DOMAIN step : handed[k] = step[k]
                /\ \A k \in (DOMAIN defaults) \ (DOMAIN step) : handed[k] = defaults[k]
      ]_vars

\* C1 witness: defaults limit=50 and a database_uri, step limit=10: the
\* constructor received limit=10 next to the default database_uri.
C1_Witness ==
    /\ call.op = "create_invoker"
    /\ outcome = "ok"
    /\ call.config = ("type" :> "sql" @@ "limit" :> "10")
    /\ constructed[1].config =
          ("type" :> "sql" @@ "limit" :> "10" @@ "database_uri" :> "bolt://a")

\* C8: register_invoker of a name the registry already has raises the
\* already-registered error and leaves the registry as it was; of a new name
\* it succeeds, the name then resolves to the class given and every other
\* name resolves as before.
C8_RegisterRejectsDuplicates ==
    [][ call'.op = "register_invoker" =>
            LET name == call'.name IN
            IF name \in DOMAIN _registry
            THEN /\ outcome' = "ValueError: already registered"
                 /\ _registry' = _registry
            ELSE /\ outcome' = "ok"
                 /\ DOMAIN _registry' = (DOMAIN _registry) \cup {name}
                 /\ _registry'[name] = call'.cls
                 /\ \A other \in DOMAIN _registry : _registry'[other] = _registry[other]
      ]_vars

\* C8 witness: a second registration of "sql" with another class was
\* rejected; "sql" and the built-in "verbatim" resolve to their own classes.
C8_Witness ==
    /\ call = [op |-> "register_invoker", name |-> "sql", cls |-> "VerbatimInvoker"]
    /\ outcome = "ValueError: already registered"
    /\ _registry = ("verbatim" :> "VerbatimInvoker" @@ "sql" :> "SqlInvoker")

\* C9: create_invoker of a config without "type" raises the invalid-config
\* error without having looked anything up; of a config whose type is not
\* registered it raises the unknown-type error; in both cases no constructor
\* is called and registry and process-wide configuration stay as they were.
C9_CreateInvokerFailsFast ==
    [][ call'.op = "create_invoker" =>
            LET step == call'.config IN
            /\ "type" \notin DOMAIN step =>
                    /\ outcome' = "ValueError: Invalid invoker config"
                    /\ lookups' = <<>>
                    /\ constructed' = <<>> /\ returned' = NoValue
                    /\ _registry' = _registry /\ config' = config
            /\ ("type" \in DOMAIN step /\ step["type"] \notin DOMAIN _registry) =>
                    /\ outcome' = "ValueError: Unknown invoker type"
                    /\ constructed' = <<>> /\ returned' = NoValue
                    /\ _registry' = _registry /\ config' = config
      ]_vars

\* C9 witness: type "sql" has process-wide defaults but no registered class,
\* and a step asking for it with a limit of its own got the unknown-type error.
C9_Witness ==
    /\ call.op = "create_invoker"
    /\ call.config = ("type" :> "sql" @@ "limit" :> "10")
    /\ "sql" \in DOMAIN config
    /\ outcome = "ValueError: Unknown invoker type"

\* C10: create_invoker_pool with pool_size <= 0 fails at once: no registry
\* lookup, no constructor call, nothing returned.
C10_PoolSizeMustBePositive ==
    (call.op = "create_invoker_pool" /\ call.pool_size <= 0) =>
        /\ outcome = "AssertionError"
        /\ lookups = <<>>
        /\ constructed = <<>>
        /\ returned = NoValue

\* C10 witness: a pool of size -1 of a registered type was asked for and refused.
C10_Witness ==
    /\ call.op = "create_invoker_pool"
    /\ call.pool_size = -1
    /\ "type" \in DOMAIN call.config
    /\ call.config["type"] \in DOMAIN _registry
    /\ outcome = "AssertionError"

\* C14: when the k-th construction (1 <= k <= pool_size) of
\* create_invoker_pool raises, the call ends with that exception, the k-th
\* construction is the last one made, and nothing is returned.
C14_PoolCreationAbortsOnFailure ==
    (/\ call.op = "create_invoker_pool"
     /\ call.failAt \in 1 .. call.pool_size
     /\ "type" \in DOMAIN call.config
     /\ call.config["type"] \in DOMAIN _registry) =>
        /\ outcome = "ConstructorError"
        /\ Len(constructed) = call.failAt
        /\ Len(lookups) = call.failAt
        /\ returned = NoValue

\* C14 witness: of a pool of two, the second construction failed after the
\* first had succeeded.
C14_Witness ==
    /\ call.op = "create_invoker_pool"
    /\ call.pool_size = 2
    /\ call.failAt = 2
    /\ outcome = "ConstructorError"
    /\ Len(constructed) = 2
    /\ returned = NoValue

-----------------------------------------------------------------------------
(* Properties of the pool (checked under SpecPool, SpecPoolAnyRelease).    *)

Holding == {c \in Callers : callerPc[c] = "holding"}
CheckedOut == Cardinality(Holding)
InCirculation == Len(queue) + CheckedOut

\* C2: while no release() has happened on a pool of size N, an acquire() can
\* return at once as long as fewer than N have returned, and once N have
\* returned the queue is empty and no further acquire() returns.
C2_FreshPoolServesExactlyN ==
    /\ [](fresh => /\ CheckedOut <= capacity
                   /\ (CheckedOut < capacity => queue # <<>>)
                   /\ (CheckedOut = capacity => queue = <<>>))
    /\ [][ (fresh /\ CheckedOut = capacity) =>
              ~(\E c \in Callers : callerPc[c] = "acquiring" /\ callerPc'[c] = "holding")
        ]_vars

\* C2 witness: a fresh pool of size 2, both instances out, a third caller
\* waiting inside acquire().
C2_Witness ==
    /\ fresh
    /\ capacity = 2
    /\ CheckedOut = 2
    /\ \E c \in Callers : callerPc[c] = "acquiring"

\* C3 as claimed: whatever acquire() and release(invoker) calls are made, the
\* instances in the queue plus those checked out never exceed the pool's size.
C3_CirculationNeverExceedsSize == InCirculation <= capacity

\* C3 as amended: as long as every release() returned an instance its caller
\* held, the instances in the queue plus those checked out never exceed the
\* pool's size.
C3_CirculationBoundedUnderDiscipline ==
    misuses = 0 => InCirculation <= capacity

\* C3 witness: after releases of held instances only, with an instance out,
\* the pool's whole size is in circulation.
C3_Witness ==
    /\ misuses = 0
    /\ ~fresh
    /\ CheckedOut > 0
    /\ InCirculation = capacity

\* C4: when every caller releases what it acquired, once, no instance is
\* held by two callers at the same time, and acquire() never returns an
\* instance that some caller is holding.
C4_ExclusiveHolder ==
    /\ [](\A c1, c2 \in Holding : c1 # c2 => held[c1] # held[c2])
    /\ [][ \A c \in Callers :
              (callerPc[c] = "acquiring" /\ callerPc'[c] = "holding") =>
                  \A o \in Holding : held[o] # held'[c]
        ]_vars

\* C4 witness: two callers hold an instance each while a third waits.
C4_Witness ==
    /\ \E c1, c2 \in Holding : c1 # c2
    /\ \E c \in Callers : callerPc[c] = "acquiring"

-----------------------------------------------------------------------------
(* Properties of a query's execution (checked under SpecQuery).            *)

Invoked == invokedBy # 0
LimitUsed == thrInvoker[invokedBy].limit

\* The last invoke() met an exception: the driver call raised, or the
\* transformer did on a fetched row it could not take.
ExecutionRaised ==
    \/ response.kind = "raises"
    \/ response.kind = "cursor" /\ response.badRow \in 1 .. Min(response.n, LimitUsed)

\* C5 as claimed: an invoke() that reached the driver lets no exception of
\* the driver call or of the transformer through; when one was raised the
\* text returned holds headers=[], records=[], has_more=false and a
\* non-empty error; error is set only next to empty records and headers, and
\* a successful execution returns error=null.
C5_FailuresBecomeErrorResults ==
    (Invoked /\ request # NoValue) =>
        /\ raised = None
        /\ result # NoValue
        /\ ExecutionRaised =>
                /\ JsonField(result, "headers") = <<>>
                /\ JsonField(result, "records") = <<>>
                /\ JsonField(result, "has_more") = FALSE
                /\ JsonField(result, "error") # None
                /\ JsonField(result, "error")[1] # ""
        /\ JsonField(result, "error") # None =>
                /\ JsonField(result, "headers") = <<>>
                /\ JsonField(result, "records") = <<>>
        /\ ~ExecutionRaised => JsonField(result, "error") = None

\* C6: a successful bounded query over a cursor of n rows with limit L
\* returns the first min(n, L) rows in cursor order, has_more exactly when
\* n > L, and error=null, also when the peek met a consumed cursor.
C6_BoundedResult ==
    (Invoked /\ response.kind = "cursor" /\ ~ExecutionRaised) =>
        LET n == response.n
            L == LimitUsed
            records == JsonField(result, "records")
        IN  /\ raised = None
            /\ Len(records) = Min(n, L)
            /\ \A i \in 1 .. Len(records) : records[i] = <<i>>
            /\ JsonField(result, "has_more") = (n > L)
            /\ JsonField(result, "error") = None

\* C6 witness: limit 2 and a cursor of 3 rows: 2 records and has_more.
C6_Witness ==
    /\ Invoked
    /\ response.kind = "cursor" /\ response.n = 3 /\ response.badRow = 0
    /\ LimitUsed = 2
    /\ JsonField(result, "records") = << <<1>>, <<2>> >>
    /\ JsonField(result, "has_more") = TRUE

-----------------------------------------------------------------------------
(* Properties of the shared driver (checked under SpecNeo4j).              *)

\* C7 as claimed: over any constructions of Neo4j invokers in one process,
\* from concurrent threads too, a driver is created at most once.
C7_DriverCreatedAtMostOnce == Len(drivers) <= 1

-----------------------------------------------------------------------------
(* Properties of the construction of Neo4j invokers, continued (checked    *)
(* under SpecNeo4j).                                                       *)

\* C11 as claimed: a construction that finds no shared connection creates
\* one and reaches its fields only when the verification of the shared
\* connection has succeeded; a verification that fails is not caught: the
\* construction ends raised and never yields an invoker.  Only one
\* construction of the process makes a verification call: every other one
\* goes straight to its fields, creates nothing and leaves the connection
\* as it is.
C11_FirstVerifiesLaterReuse ==
    [][\A t \in Threads :
          /\ (thrPc[t] = "idle" /\ thrPc'[t] # "idle") =>
                IF _DRIVER = 0
                THEN thrPc'[t] = "create"
                ELSE /\ thrPc'[t] = "fields"
                     /\ _DRIVER' = _DRIVER
                     /\ drivers' = drivers
          /\ (thrPc[t] = "create" /\ thrPc'[t] # "create") =>
                /\ thrPc'[t] = "verify"
                /\ Len(drivers') = Len(drivers) + 1
                /\ ~drivers'[_DRIVER'].verified
          /\ thrTarget'[t] # thrTarget[t] =>
                /\ thrTarget'[t] = _DRIVER
                /\ \A u \in Threads \ {t} : thrTarget[u] = 0
          /\ (thrPc[t] = "verify" /\ thrPc'[t] # "verify") =>
                \/ thrPc'[t] = "fields" /\ drivers'[_DRIVER'].verified
                \/ /\ thrPc'[t] = "raised"
                   /\ thrInvoker'[t] = NoValue
                   /\ drivers' = drivers
          /\ thrPc[t] = "fields" => thrPc'[t] \in {"fields", "done"}
          /\ thrPc[t] = "raised" =>
                thrPc'[t] = "raised" /\ thrInvoker'[t] = NoValue
          /\ thrPc'[t] = "done" => thrInvoker'[t] # NoValue
      ]_vars

-----------------------------------------------------------------------------
(* Properties of the execution of queries, continued (checked under        *)
(* SpecQuery).                                                             *)

\* The write intent a request to the store declares: <<b>> when the request
\* carries one, None when it carries none.
DeclaredIntentIn(req) ==
    IF "write_queries" \in DOMAIN req THEN Some(req.write_queries) ELSE None

\* C12 as claimed: every request the executor makes to the backing store
\* carries the value of the instance's write_queries flag, and the text it
\* returns does not depend on the query text (among the texts that have a
\* UTF-8 encoding).
C12_WriteIntentReachesStore ==
    (Invoked /\ request # NoValue) =>
        /\ DeclaredIntentIn(request) =
                Some(thrInvoker[invokedBy].execute_write_queries)
        /\ \A q \in Queries :
                encode(q) = None =>
                    execute(Neo4jClient(thrInvoker[invokedBy]), q, response).text = result

-----------------------------------------------------------------------------
(* Properties of the echo adapter behind the factory (checked under        *)
(* SpecVerbatim).                                                          *)

VerbatimStep == "type" :> "verbatim"

\* C13: with "verbatim" registered for the echo adapter and no process-wide
\* defaults, create_invoker({"type": "verbatim"}) never fails to resolve;
\* it looks up that name only, calls the class registered under it once,
\* with the step's config, and returns what that call built; invoke(text)
\* on the instance returns the text unchanged.
C13_VerbatimEndToEnd ==
    /\ "verbatim" \in DOMAIN _registry /\ _registry["verbatim"] = "VerbatimInvoker"
    /\ config = EmptyDict
    /\ (call.op = "create_invoker" /\ call.config = VerbatimStep) =>
            /\ outcome \in {"ok", "ConstructorError"}
            /\ lookups = <<"verbatim">>
            /\ constructed = <<[cls |-> "VerbatimInvoker", config |-> VerbatimStep]>>
            /\ outcome = "ok" =>
                    returned = [kind |-> "invoker", cls |-> "VerbatimInvoker",
                                config |-> VerbatimStep]
    /\ request # NoValue => result = request

\* create_invoker({"type": "verbatim"}) returned an instance while another
\* class was registered too, and invoke() was called on it with a text of
\* the greatest length.
C13_Witness ==
    /\ call.op = "create_invoker" /\ call.config = VerbatimStep
    /\ outcome = "ok"
    /\ "sql" \in DOMAIN _registry /\ _registry["sql"] = "SqlInvoker"
    /\ request # NoValue /\ Len(request.content) = MaxTextLen
    /\ result = request

-----------------------------------------------------------------------------
(* Properties of the pool, continued (checked under SpecPoolFair and       *)
(* SpecPool).                                                              *)

\* C15: entering acquire() and release() are always possible for a caller
\* that is idle, respectively holding, and a caller in acquire() can return
\* whenever the queue is non-empty; acquire() returns only from a non-empty
\* queue, and the queue grows only by a release, so with no release an
\* acquire() blocked on an empty queue stays blocked; when holders
\* eventually release, every caller in acquire() eventually holds an
\* instance.
C15_OnlyAcquireBlocksAndResumes ==
    /\ [](\A c \in Callers :
            /\ callerPc[c] = "idle" => ENABLED AcquireCall(c)
            /\ callerPc[c] = "holding" => ENABLED Release(c)
            /\ callerPc[c] = "acquiring" => (ENABLED AcquireReturn(c) <=> queue # <<>>))
    /\ [][(\A c \in Callers :
                (callerPc[c] = "acquiring" /\ callerPc'[c] # "acquiring") =>
                    (queue # <<>> /\ callerPc'[c] = "holding" /\ held'[c] = Head(queue)))
           /\ (Len(queue') > Len(queue) =>
                    \E c \in Callers : callerPc[c] = "holding" /\ callerPc'[c] = "idle")
        ]_vars
    /\ \A c \in Callers :
            (callerPc[c] = "acquiring") ~> (callerPc[c] = "holding")

\* A caller is blocked in acquire(): the queue is empty and every instance
\* is with another caller.
C15_Witness ==
    \E c \in Callers :
        /\ callerPc[c] = "acquiring"
        /\ queue = <<>>
        /\ CheckedOut = capacity

\* C16: until the first release the queue holds the instances not yet
\* acquired in the order they were created; every acquire() takes the front
\* of the queue and leaves the rest in order; every release(i) puts i at
\* the back and leaves the rest in order.  So instances leave the queue in
\* the order they entered it.
C16_QueueIsFifo ==
    /\ [](fresh => queue = [j \in 1 .. Len(queue) |-> capacity - Len(queue) + j])
    /\ [][(\A c \in Callers :
                (callerPc[c] = "acquiring" /\ callerPc'[c] = "holding") =>
                    (queue # <<>> /\ held'[c] = Head(queue) /\ queue' = Tail(queue)))
           /\ (\A c \in Callers :
                (callerPc[c] = "holding" /\ callerPc'[c] = "idle") =>
                    queue' = Append(queue, held[c]))
           /\ (queue' # queue =>
                    \/ queue # <<>> /\ queue' = Tail(queue)
                    \/ \E i \in 1 .. capacity + 1 : queue' = Append(queue, i))
        ]_vars

\* An instance that was released waits at the front of the queue while the
\* instance created last, which was queued before that release, is out.
C16_Witness ==
    /\ ~fresh
    /\ queue # <<>>
    /\ Head(queue) = 1
    /\ \E c \in Callers : callerPc[c] = "holding" /\ held[c] = capacity
    /\ capacity > 1

-----------------------------------------------------------------------------------------------------------------------------------------------------
(* Properties of successive invoke() calls on one instance (checked under  *)
(* SpecRepeat).                                                            *)

\* The last invoke() was made on the instance of thread 1, after whatever
\* calls that instance had before, with the content and the store's response
\* of the one invoke() the reference instance had.
SameCallAsReference ==
    /\ invokedBy = 1
    /\ reference # NoValue
    /\ thrConfig[1] = thrConfig[ReferenceThread]
    /\ invokedWith = reference.content
    /\ response = reference.response

-----------------------------------------------------------------------------
(* Frame of the factory's operations (checked under Spec).                 *)

\* C18 as claimed: no call changes the defaults the factory holds, and in
\* every state the effective config create_invoker gives a step config b
\* is the same after a create_invoker call with another step config a of
\* that type as it is without that call.
C18_DefaultsNeverChange ==
    /\ [][config' = config]_vars
    /\ [](\A a, b \in StepConfigs :
            ("type" \in DOMAIN a /\ "type" \in DOMAIN b /\ a["type"] = b["type"]) =>
                create_invoker(_registry,
                               create_invoker(_registry, config, a, FALSE).config,
                               b, FALSE).constructed
                    = create_invoker(_registry, config, b, FALSE).constructed)

-----------------------------------------------------------------------------
(* Properties of the shared driver (checked under SpecNeo4j).              *)

\* C19 as claimed: whenever a construction returns an invoker, the shared
\* connection that invoker is going to use has passed its connectivity
\* verification.
C19_InvokersOnlyOnVerifiedConnection ==
    [][\A t \in Threads :
          (thrPc[t] # "done" /\ thrPc'[t] = "done") =>
              (_DRIVER' # 0 /\ drivers'[_DRIVER'].verified)
      ]_vars

\* The database_uri an invoker's own configuration resolves to.
OwnURI(t) == thrConfig[t]["database_uri"]

\* C20 as claimed (checked under SpecNeo4jUse): the driver a query of an
\* invoker is executed on was created from the database_uri of that
\* invoker's configuration, so invokers configured with different
\* database_uri values never send their queries to the same driver.
C20_QueriesRunOnOwnDriver ==
    (Invoked /\ request # NoValue) =>
        /\ request.driver \in 1 .. Len(drivers)
        /\ drivers[request.driver].uri = OwnURI(invokedBy)

====
